---------------------------- MODULE Spec2Model ----------------------------
(***************************************************************************)
(* De Bruijn graph construction (src/debruijn.py, build_debruijn_graph)    *)
(* and greedy unitig extraction (src/unitig.py, find_unitigs), run in      *)
(* sequence as src/main.py does.                                           *)
(*                                                                         *)
(* A read and a node (k-mer) are sequences of symbols.  A Python dict is a *)
(* sequence of <<key, value>> pairs in insertion order; the three maps of  *)
(* the graph are defaultdicts, so a lookup of a missing key inserts the    *)
(* default value.                                                          *)
(***************************************************************************)
EXTENDS Integers, Sequences, FiniteSets, TLC

VARIABLES reads, k,                    \* arguments of build_debruijn_graph
          adj, indeg, outdeg,          \* the three maps (live objects)
          in_adj, in_indeg, in_outdeg, \* their value when find_unitigs was called
          pc,                          \* position in the program
          anchors, ki,                 \* anchor list, index into adj.keys()
          vi, wi,                      \* indices of the two for loops
          visited_edges, unitigs,      \* locals of find_unitigs
          path, u,                     \* locals of the inner walk
          dupAdds                      \* visited_edges.add calls on a present edge

vars == <<reads, k, adj, indeg, outdeg, in_adj, in_indeg, in_outdeg, pc,
          anchors, ki, vi, wi, visited_edges, unitigs, path, u, dupAdds>>

---------------------------------------------------------------------------
(* Bounds of the model *)

MaxReads == 2
MaxTotal == 6
MaxK == 3
NegK == 1
MaxAdjLen == 2
MaxDeg == 2

Alphabet == {"A", "C"}

\* No walk over a graph built from the bounded reads is longer than this.
PathCap == MaxTotal + NegK * MaxReads + 2

---------------------------------------------------------------------------
(* Python dict / defaultdict *)

KeySet(d) == {d[i][1] : i \in 1..Len(d)}

Has(d, key) == key \in KeySet(d)

Idx(d, key) == CHOOSE i \in 1..Len(d) : d[i][1] = key

\* value of d[key] on a defaultdict whose default is dflt
Val(d, key, dflt) == IF Has(d, key) THEN d[Idx(d, key)][2] ELSE dflt

\* the dict after the lookup d[key] (defaultdict.__missing__ inserts)
Touch(d, key, dflt) == IF Has(d, key) THEN d ELSE Append(d, <<key, dflt>>)

\* the dict after d[key] = v
Set(d, key, v) ==
    IF Has(d, key) THEN [d EXCEPT ![Idx(d, key)] = <<key, v>>]
    ELSE Append(d, <<key, v>>)

---------------------------------------------------------------------------
(* build_debruijn_graph *)

NormIndex(i, n) ==
    IF i < 0 THEN (IF i + n < 0 THEN 0 ELSE i + n)
    ELSE IF i > n THEN n ELSE i

\* s[a:b]
PySlice(s, a, b) ==
    LET lo == NormIndex(a, Len(s))
        hi == NormIndex(b, Len(s))
    IN IF lo < hi THEN SubSeq(s, lo + 1, hi) ELSE <<>>

\* number of values of range(n)
PyRangeLong(n) == IF n + 1 > 0 THEN n + 1 ELSE 0

PyRange(n) == IF n > 0 THEN n ELSE 0

EmptyGraph == [adj |-> <<>>, indeg |-> <<>>, outdeg |-> <<>>]

\* the loop body without line 28
AddEdgeNoSinkOutdeg(g, a, b) ==
    LET adj1    == Set(g.adj, a, Append(Val(g.adj, a, <<>>), b))
        outdeg1 == Set(g.outdeg, a, Val(g.outdeg, a, 0) + 1)
        indeg1  == Set(g.indeg, b, Val(g.indeg, b, 0) + 1)
        indeg2  == Set(indeg1, a, Val(indeg1, a, 0) + 0)
    IN [adj |-> adj1, indeg |-> indeg2, outdeg |-> outdeg1]

\* the loop body with line 25 written `indeg[v] = 1`
AddEdgeIndegAssign(g, a, b) ==
    LET adj1    == Set(g.adj, a, Append(Val(g.adj, a, <<>>), b))
        outdeg1 == Set(g.outdeg, a, Val(g.outdeg, a, 0) + 1)
        indeg1  == Set(g.indeg, b, 1)
        indeg2  == Set(indeg1, a, Val(indeg1, a, 0) + 0)
        outdeg2 == Set(outdeg1, b, Val(outdeg1, b, 0) + 0)
    IN [adj |-> adj1, indeg |-> indeg2, outdeg |-> outdeg2]

\* the loop body, lines 23-28
AddEdge(g, a, b) ==
    LET adj1    == Set(g.adj, a, Append(Val(g.adj, a, <<>>), b))
        outdeg1 == Set(g.outdeg, a, Val(g.outdeg, a, 0) + 1)
        indeg1  == Set(g.indeg, b, Val(g.indeg, b, 0) + 1)
        indeg2  == Set(indeg1, a, Val(indeg1, a, 0) + 0)
        outdeg2 == Set(outdeg1, b, Val(outdeg1, b, 0) + 0)
    IN [adj |-> adj1, indeg |-> indeg2, outdeg |-> outdeg2]

RECURSIVE BuildRead(_, _, _, _)
BuildRead(g, read, kk, i) ==
    IF i >= PyRange(Len(read) - kk) THEN g
    ELSE BuildRead(AddEdge(g, PySlice(read, i, i + kk),
                              PySlice(read, i + 1, i + kk + 1)),
                   read, kk, i + 1)

RECURSIVE BuildReads(_, _, _, _)
BuildReads(g, rs, kk, j) ==
    IF j > Len(rs) THEN g
    ELSE BuildReads(BuildRead(g, rs[j], kk, 0), rs, kk, j + 1)

build_debruijn_graph(rs, kk) == BuildReads(EmptyGraph, rs, kk, 1)

---------------------------------------------------------------------------
(* Inputs *)

Strs(n) == [1..n -> Alphabet]

RECURSIVE Lists(_, _)
Lists(m, budget) ==
    IF m = 0 THEN {<<>>}
    ELSE UNION { { <<r>> \o rest : rest \in Lists(m - 1, budget - Len(r)) }
                 : r \in UNION { Strs(n) : n \in 0..budget } }

ReadLists == UNION { Lists(m, MaxTotal) : m \in 0..MaxReads }

KRange == (0 - NegK)..MaxK

\* nothing has run yet
Init ==
    /\ reads = <<>>
    /\ k = 1
    /\ adj = <<>> /\ indeg = <<>> /\ outdeg = <<>>
    /\ in_adj = <<>> /\ in_indeg = <<>> /\ in_outdeg = <<>>
    /\ pc = "input"
    /\ anchors = <<>> /\ ki = 1 /\ vi = 1 /\ wi = 1
    /\ visited_edges = {} /\ unitigs = <<>>
    /\ path = <<>> /\ u = <<>>
    /\ dupAdds = 0

\* main.py: the caller supplies the reads and k
Input ==
    /\ pc = "input"
    /\ reads' \in ReadLists
    /\ k' \in KRange
    /\ pc' = "build"
    /\ UNCHANGED <<adj, indeg, outdeg, in_adj, in_indeg, in_outdeg, anchors,
                   ki, vi, wi, visited_edges, unitigs, path, u, dupAdds>>

\* main.py: the graph is built, then handed to find_unitigs
Build ==
    /\ pc = "build"
    /\ LET g == build_debruijn_graph(reads, k)
       IN /\ adj' = g.adj /\ indeg' = g.indeg /\ outdeg' = g.outdeg
          /\ in_adj' = g.adj /\ in_indeg' = g.indeg /\ in_outdeg' = g.outdeg
    /\ pc' = "anchors"
    /\ UNCHANGED <<reads, k, anchors, ki, vi, wi, visited_edges, unitigs,
                   path, u, dupAdds>>

---------------------------------------------------------------------------
(* find_unitigs *)

\* adj.keys(), line 10
Keys(d) == [i \in 1..Len(d) |-> d[i][1]]

AnchorKeysOfIndeg(a, i) == Keys(i)

\* the keys the anchor comprehension enumerates, line 10
AnchorKeys(a, i) == Keys(a)

IsAnchorOutdegZero(iv, ov) == iv # 1 \/ ov # 0 \/ (iv = 0 /\ ov = 0)

\* the filter of the comprehension, lines 11-12
IsAnchor(iv, ov) == iv # 1 \/ ov # 1 \/ (iv = 0 /\ ov = 0)

InteriorOutdegOnly(iv, ov) == ov = 1

\* the condition of the while loop, line 24
Interior(iv, ov) == iv = 1 /\ ov = 1

\* outdeg after `indeg[x] ... outdeg[x]` under short-circuit evaluation:
\* outdeg[x] is looked up only when indeg[x] == 1 (lines 11 and 24)
OutdegAfterTest(i, o, x) == IF Val(i, x, 0) = 1 THEN Touch(o, x, 0) ELSE o

NeverSeen(e, vis) == FALSE

\* `edge in visited_edges`, line 18
AlreadyVisited(e, vis) == e \in vis

ClosePathDropLast(p, n) == p

\* path.append(u) after the loop, line 30
ClosePath(p, n) == Append(p, n)

\* one key of the comprehension of lines 10-12; after the last key the
\* for loops of lines 15-16 start
SelectAnchors ==
    /\ pc = "anchors"
    /\ LET ks == AnchorKeys(adj, indeg) IN
       IF ki > Len(ks)
       THEN /\ pc' = "loop"
            /\ UNCHANGED <<indeg, outdeg, anchors, ki>>
       ELSE LET v == ks[ki] IN
            /\ indeg' = Touch(indeg, v, 0)
            /\ outdeg' = OutdegAfterTest(indeg, outdeg, v)
            /\ anchors' = IF IsAnchor(Val(indeg, v, 0), Val(outdeg, v, 0))
                          THEN Append(anchors, v) ELSE anchors
            /\ ki' = ki + 1
            /\ pc' = pc
    /\ UNCHANGED <<reads, k, adj, in_adj, in_indeg, in_outdeg, vi, wi,
                   visited_edges, unitigs, path, u, dupAdds>>

\* `for v in anchors` is exhausted: line 32
Return ==
    /\ pc = "loop"
    /\ vi > Len(anchors)
    /\ pc' = "done"
    /\ UNCHANGED <<reads, k, adj, indeg, outdeg, in_adj, in_indeg, in_outdeg,
                   anchors, ki, vi, wi, visited_edges, unitigs, path, u,
                   dupAdds>>

\* `for w in adj[v]` is exhausted: next anchor, line 15
NextAnchor ==
    /\ pc = "loop"
    /\ vi <= Len(anchors)
    /\ wi > Len(Val(adj, anchors[vi], <<>>))
    /\ adj' = Touch(adj, anchors[vi], <<>>)
    /\ vi' = vi + 1
    /\ wi' = 1
    /\ UNCHANGED <<reads, k, indeg, outdeg, in_adj, in_indeg, in_outdeg, pc,
                   anchors, ki, visited_edges, unitigs, path, u, dupAdds>>

\* lines 16-19: the edge was traversed before
SkipEdge ==
    /\ pc = "loop"
    /\ vi <= Len(anchors)
    /\ wi <= Len(Val(adj, anchors[vi], <<>>))
    /\ AlreadyVisited(<<anchors[vi], Val(adj, anchors[vi], <<>>)[wi]>>,
                      visited_edges)
    /\ wi' = wi + 1
    /\ UNCHANGED <<reads, k, adj, indeg, outdeg, in_adj, in_indeg, in_outdeg,
                   pc, anchors, ki, vi, visited_edges, unitigs, path, u,
                   dupAdds>>

\* lines 16-23: a new path starts with the edge (v, w)
StartPath ==
    /\ pc = "loop"
    /\ vi <= Len(anchors)
    /\ wi <= Len(Val(adj, anchors[vi], <<>>))
    /\ LET v == anchors[vi]
           w == Val(adj, v, <<>>)[wi]
       IN /\ ~AlreadyVisited(<<v, w>>, visited_edges)
          /\ path' = <<v>>
          /\ visited_edges' = visited_edges \cup {<<v, w>>}
          /\ u' = w
    /\ pc' = "walk"
    /\ UNCHANGED <<reads, k, adj, indeg, outdeg, in_adj, in_indeg, in_outdeg,
                   anchors, ki, vi, wi, unitigs, dupAdds>>

\* the body of the while loop with an empty adjacency list taken as the
\* end of the path
ExtendRecover ==
    /\ pc = "walk"
    /\ Len(path) < PathCap
    /\ Interior(Val(indeg, u, 0), Val(outdeg, u, 0))
    /\ indeg' = Touch(indeg, u, 0)
    /\ outdeg' = OutdegAfterTest(indeg, outdeg, u)
    /\ adj' = Touch(adj, u, <<>>)
    /\ path' = Append(path, u)
    /\ LET lst == Val(adj, u, <<>>) IN
       IF lst = <<>>
       THEN /\ pc' = "loop"
            /\ unitigs' = Append(unitigs, path')
            /\ wi' = wi + 1
            /\ UNCHANGED <<visited_edges, u, dupAdds>>
       ELSE /\ visited_edges' = visited_edges \cup {<<u, lst[1]>>}
            /\ dupAdds' = dupAdds + (IF <<u, lst[1]>> \in visited_edges
                                     THEN 1 ELSE 0)
            /\ u' = lst[1]
            /\ UNCHANGED <<pc, unitigs, wi>>
    /\ UNCHANGED <<reads, k, in_adj, in_indeg, in_outdeg, anchors, ki, vi>>

\* lines 24-28: the loop condition holds and the body runs; adj[u][0] on an
\* empty list raises IndexError, which ends the call
Extend ==
    /\ pc = "walk"
    /\ Len(path) < PathCap
    /\ Interior(Val(indeg, u, 0), Val(outdeg, u, 0))
    /\ indeg' = Touch(indeg, u, 0)
    /\ outdeg' = OutdegAfterTest(indeg, outdeg, u)
    /\ adj' = Touch(adj, u, <<>>)
    /\ path' = Append(path, u)
    /\ LET lst == Val(adj, u, <<>>) IN
       IF lst = <<>>
       THEN /\ pc' = "error"
            /\ UNCHANGED <<visited_edges, u, dupAdds>>
       ELSE /\ visited_edges' = visited_edges \cup {<<u, lst[1]>>}
            /\ dupAdds' = dupAdds + (IF <<u, lst[1]>> \in visited_edges
                                     THEN 1 ELSE 0)
            /\ u' = lst[1]
            /\ pc' = pc
    /\ UNCHANGED <<reads, k, in_adj, in_indeg, in_outdeg, anchors, ki, vi, wi,
                   unitigs>>

\* lines 24, 30-31: the loop condition fails, the path is recorded
Finish ==
    /\ pc = "walk"
    /\ ~Interior(Val(indeg, u, 0), Val(outdeg, u, 0))
    /\ indeg' = Touch(indeg, u, 0)
    /\ outdeg' = OutdegAfterTest(indeg, outdeg, u)
    /\ path' = ClosePath(path, u)
    /\ unitigs' = Append(unitigs, path')
    /\ wi' = wi + 1
    /\ pc' = "loop"
    /\ UNCHANGED <<reads, k, adj, in_adj, in_indeg, in_outdeg, anchors, ki,
                   vi, visited_edges, u, dupAdds>>

find_unitigs ==
    \/ SelectAnchors
    \/ Return
    \/ NextAnchor
    \/ SkipEdge
    \/ StartPath
    \/ Extend
    \/ Finish

Next == Input \/ Build \/ find_unitigs

Spec == Init /\ [][Next]_vars

\* find_unitigs, once called, runs on: one thread, no suspension points
LiveSpec == Spec /\ WF_vars(find_unitigs)

---------------------------------------------------------------------------
(* find_unitigs called on arbitrary maps over two nodes *)

NodeSeq == << <<"A">>, <<"C">> >>

AnyNodes == {NodeSeq[i] : i \in 1..Len(NodeSeq)}

AdjLists == UNION { [1..n -> AnyNodes] : n \in 0..MaxAdjLen }

RECURSIVE DictsOver(_, _)
DictsOver(ns, vals) ==
    IF ns = <<>> THEN {<<>>}
    ELSE LET rest == DictsOver(Tail(ns), vals)
         IN rest \cup { << <<Head(ns), x>> >> \o d : x \in vals, d \in rest }

InitAny ==
    /\ reads = <<>>
    /\ k = 1
    /\ adj \in DictsOver(NodeSeq, AdjLists)
    /\ indeg \in DictsOver(NodeSeq, 0..MaxDeg)
    /\ outdeg \in DictsOver(NodeSeq, 0..MaxDeg)
    /\ in_adj = adj /\ in_indeg = indeg /\ in_outdeg = outdeg
    /\ pc = "anchors"
    /\ anchors = <<>> /\ ki = 1 /\ vi = 1 /\ wi = 1
    /\ visited_edges = {} /\ unitigs = <<>>
    /\ path = <<>> /\ u = <<>>
    /\ dupAdds = 0

SpecAny == InitAny /\ [][find_unitigs]_vars

---------------------------------------------------------------------------
(* Vocabulary of the properties, over the graph find_unitigs was given *)

EdgeSet(a) ==
    UNION { { <<a[i][1], a[i][2][j]>> : j \in 1..Len(a[i][2]) }
            : i \in 1..Len(a) }

PathPairs(p) == { <<p[i], p[i + 1]>> : i \in 1..(Len(p) - 1) }

UnitigPairs(us) == UNION { PathPairs(us[i]) : i \in 1..Len(us) }

\* how often the pair e occurs as consecutive nodes over all paths of us
PairCount(us, e) ==
    Cardinality({ ij \in UNION { {<<i, j>> : j \in 1..(Len(us[i]) - 1)}
                                 : i \in 1..Len(us) }
                  : <<us[ij[1]][ij[2]], us[ij[1]][ij[2] + 1]>> = e })

RECURSIVE SumVals(_, _)
SumVals(d, i) == IF i > Len(d) THEN 0 ELSE d[i][2] + SumVals(d, i + 1)

RECURSIVE TotalEntries(_, _)
TotalEntries(a, i) ==
    IF i > Len(a) THEN 0 ELSE Len(a[i][2]) + TotalEntries(a, i + 1)

RECURSIVE ValidStarts(_, _, _)
ValidStarts(rs, kk, j) ==
    IF j > Len(rs) THEN 0
    ELSE (IF Len(rs[j]) - kk > 0 THEN Len(rs[j]) - kk ELSE 0)
         + ValidStarts(rs, kk, j + 1)

GraphNodes ==
    KeySet(in_adj) \cup KeySet(in_indeg) \cup KeySet(in_outdeg)
    \cup { e[2] : e \in EdgeSet(in_adj) }

InDeg(n) == Val(in_indeg, n, 0)

OutDeg(n) == Val(in_outdeg, n, 0)

OneInOneOut(n) == InDeg(n) = 1 /\ OutDeg(n) = 1

AnchorSet == { n \in KeySet(in_adj) : InDeg(n) # 1 \/ OutDeg(n) # 1 }

AllKeysOneInOneOut == \A n \in KeySet(in_adj) : OneInOneOut(n)

RECURSIVE Reach(_)
Reach(S) ==
    LET T == S \cup { e[2] : e \in { f \in EdgeSet(in_adj) : f[1] \in S } }
    IN IF T = S THEN S ELSE Reach(T)

ReachableFromAnchor == Reach(AnchorSet)

\* following first successors from cur through 1-in/1-out nodes leads to start
RECURSIVE CyclesBack(_, _, _)
CyclesBack(start, cur, fuel) ==
    LET nx == Val(in_adj, cur, <<>>)
    IN /\ OneInOneOut(cur)
       /\ nx # <<>>
       /\ \/ nx[1] = start
          \/ fuel > 0 /\ CyclesBack(start, nx[1], fuel - 1)

OnPureCycle(n) == CyclesBack(n, n, Cardinality(GraphNodes))

InCount(a, n) == Cardinality({ ij \in UNION { {<<i, j>> : j \in 1..Len(a[i][2])}
                                              : i \in 1..Len(a) }
                               : a[ij[1]][2][ij[2]] = n })

Inconsistent ==
    \E n \in GraphNodes :
        \/ OutDeg(n) # Len(Val(in_adj, n, <<>>))
        \/ InDeg(n) # InCount(in_adj, n)

Called == pc \notin {"input", "build"}

---------------------------------------------------------------------------
(* Properties *)

\* C1 (as stated): for k > 0, when find_unitigs has returned, the set of
\* consecutive (node, next-node) pairs of the returned paths equals the
\* deduplicated edge set of the graph.
C1_PairsEqualAllEdges ==
    (pc = "done" /\ k > 0) => UnitigPairs(unitigs) = EdgeSet(in_adj)

\* C1 (amended): for k > 0, when find_unitigs has returned, the set of
\* consecutive pairs of the returned paths equals the set of distinct edges
\* (u, v) whose source u does not lie on a pure cycle, a cycle all of whose
\* nodes have indeg == 1 and outdeg == 1; the edges of pure cycles are in no
\* path.
C1_PairsEqualEdgesOffPureCycles ==
    (pc = "done" /\ k > 0) =>
        UnitigPairs(unitigs) = { e \in EdgeSet(in_adj) : ~OnPureCycle(e[1]) }

C1_Witness ==
    /\ pc = "done" /\ k > 0
    /\ unitigs # <<>>
    /\ \E e \in EdgeSet(in_adj) : OnPureCycle(e[1])

\* C2: during one call of find_unitigs on a built graph each distinct edge
\* occurs as a consecutive pair at most once over all paths (the returned
\* ones and the one being walked) and no visited_edges.add meets an edge
\* already in the set; when the call has returned, every edge whose source is
\* an anchor or reachable from an anchor occurs in some returned path.
C2_EachEdgeOnceAndNoneSkipped ==
    Called =>
        /\ dupAdds = 0
        /\ \A e \in EdgeSet(in_adj) :
               PairCount(IF pc = "walk" THEN Append(unitigs, Append(path, u))
                         ELSE unitigs, e) <= 1
        /\ pc = "done" =>
               \A e \in EdgeSet(in_adj) :
                   e[1] \in ReachableFromAnchor => e \in UnitigPairs(unitigs)

C2_Witness ==
    /\ pc = "done"
    /\ TotalEntries(in_adj, 1) > Cardinality(EdgeSet(in_adj))
    /\ Len(unitigs) >= 2

\* C3 (as stated): whenever k <= 0 or k is at least the length of every
\* read, the graph build_debruijn_graph returns has no entry in adj, indeg
\* and outdeg.
C3_EmptyGraphForUselessK ==
    (Called /\ (k <= 0 \/ \A j \in 1..Len(reads) : k >= Len(reads[j]))) =>
        (in_adj = <<>> /\ in_indeg = <<>> /\ in_outdeg = <<>>)

\* C4 (as stated): a call of find_unitigs on maps that are mutually
\* inconsistent never returns a unitig list.
C4_InconsistentNeverReturns == Inconsistent => pc # "done"

\* C4 (amended): when the walk of find_unitigs stands at a node u with
\* indeg[u] == 1 and outdeg[u] == 1 whose adjacency list is empty or absent,
\* its next step is the fatal IndexError of adj[u][0]: nothing is appended to
\* the unitig list, nothing runs after the error, and the error arises in no
\* other way.  Inconsistent maps that never lead the walk to such a node are
\* not detected.
C4_FailsAtDeadEnd ==
    /\ [][ (/\ pc = "walk"
            /\ Interior(Val(indeg, u, 0), Val(outdeg, u, 0))
            /\ Val(adj, u, <<>>) = <<>>)
           => (pc' = "error" /\ unitigs' = unitigs) ]_vars
    /\ [][ pc # "error" ]_vars
    /\ [](pc = "error" =>
            /\ Interior(Val(indeg, u, 0), Val(outdeg, u, 0))
            /\ Val(adj, u, <<>>) = <<>>)

C4_Witness == pc = "error" /\ Inconsistent /\ OutDeg(u) = 1

\* C5: for k > 0 the built graph has as many adjacency entries as the sum of
\* the outdeg values, as the sum of the indeg values and as the sum over
\* the reads of max(0, length(read) - k); a repeated edge counts each time.
C5_EdgeCountInvariant ==
    (Called /\ k > 0) =>
        /\ TotalEntries(in_adj, 1) = SumVals(in_outdeg, 1)
        /\ SumVals(in_outdeg, 1) = SumVals(in_indeg, 1)
        /\ SumVals(in_indeg, 1) = ValidStarts(reads, k, 1)

C5_Witness ==
    /\ Called /\ k > 0
    /\ TotalEntries(in_adj, 1) > Cardinality(EdgeSet(in_adj))
    /\ \E j \in 1..Len(reads) : Len(reads[j]) < k

\* C6: if every key of adj has indeg == 1 and outdeg == 1, no anchor is
\* selected, no path is started or recorded and no error is raised:
\* find_unitigs returns the empty list although the graph has edges.
C6_PureCyclesGiveNoUnitigs ==
    (Called /\ AllKeysOneInOneOut) =>
        (anchors = <<>> /\ unitigs = <<>> /\ pc \in {"anchors", "loop", "done"})

C6_Witness ==
    /\ pc = "done" /\ AllKeysOneInOneOut
    /\ Cardinality(EdgeSet(in_adj)) >= 2
    /\ unitigs = <<>>

\* C7: from the call of find_unitigs on, adj, indeg and outdeg keep the keys,
\* the key order, the adjacency lists and the degree values they had at the
\* call.
C7_GraphUnchanged ==
    Called => (adj = in_adj /\ indeg = in_indeg /\ outdeg = in_outdeg)

C7_Witness ==
    /\ pc = "done"
    /\ \E i \in 1..Len(unitigs) :
          /\ Len(unitigs[i]) > 2
          /\ unitigs[i][Len(unitigs[i])] \notin KeySet(in_adj)

\* C8 (as stated): a node that is not a key of adj is never an anchor and
\* occurs in no returned unitig.
C8_NonSourceAbsent ==
    Called =>
        \A n \in GraphNodes \ KeySet(in_adj) :
            /\ \A i \in 1..Len(anchors) : anchors[i] # n
            /\ \A i \in 1..Len(unitigs) :
                   \A j \in 1..Len(unitigs[i]) : unitigs[i][j] # n

\* C8 (amended): a node that is not a key of adj is never an anchor and is
\* never the first node or an inner node of a returned unitig; it can occur
\* only as the last node of a unitig.
C8_NonSourceOnlyLast ==
    Called =>
        \A n \in GraphNodes \ KeySet(in_adj) :
            /\ \A i \in 1..Len(anchors) : anchors[i] # n
            /\ \A i \in 1..Len(unitigs) :
                   \A j \in 1..(Len(unitigs[i]) - 1) : unitigs[i][j] # n

C8_Witness ==
    /\ pc = "done"
    /\ \E n \in GraphNodes \ KeySet(in_adj) :
          \E i \in 1..Len(unitigs) : unitigs[i][Len(unitigs[i])] = n

\* C9: every recorded unitig has at least two nodes, starts at an anchor (a
\* key of adj with indeg != 1 or outdeg != 1), has only 1-in/1-out nodes
\* strictly between its first and last node, ends at a node with indeg != 1
\* or outdeg != 1, and every consecutive pair of it is an edge of the graph.
C9_UnitigsAreNonBranchingPaths ==
    Called =>
        \A i \in 1..Len(unitigs) :
            LET p == unitigs[i] IN
            /\ Len(p) >= 2
            /\ p[1] \in AnchorSet
            /\ \A j \in 2..(Len(p) - 1) : OneInOneOut(p[j])
            /\ ~OneInOneOut(p[Len(p)])
            /\ PathPairs(p) \subseteq EdgeSet(in_adj)

C9_Witness ==
    /\ pc = "done"
    /\ Len(unitigs) >= 2
    /\ \E i \in 1..Len(unitigs) : Len(unitigs[i]) > 3

\* C10: for k > 0 the call of find_unitigs on the built graph returns after
\* finitely many steps, and no step of the walk finds adj[u] empty.
C10_Terminates ==
    /\ (pc = "anchors" /\ k > 0) ~> (pc = "done")
    /\ [](k > 0 => pc # "error")

C10_Witness ==
    /\ pc = "done" /\ k > 0
    /\ \E i \in 1..Len(unitigs) :
          /\ Len(unitigs[i]) > 3
          /\ unitigs[i][1] = unitigs[i][Len(unitigs[i])]
=============================================================================
